---- MODULE Spec2Model ----
(***************************************************************************)
(* Conway's Game of Life on a toroidal grid with incrementally maintained  *)
(* live-neighbour counts (src/src/world.rs).                               *)
(*                                                                         *)
(* A world value is a record [cells, panicked]: cells maps <<x, y>> to a   *)
(* Cell record; panicked is set when a Rust panic (index out of bounds,    *)
(* u8 overflow with overflow checks on) has unwound the call, in which     *)
(* case cells holds the storage as the panic left it.                      *)
(*                                                                         *)
(* Spec is the public interface of World from World::new. The other       *)
(* specifications are harnesses in the manner of the tests of world.rs:   *)
(* each constructs a world, seeds it (stage "seeded") and then records    *)
(* the calls it makes in ops, with before the world those calls started   *)
(* from.                                                                   *)
(***************************************************************************)
EXTENDS Integers, Sequences, FiniteSets, TLC

VARIABLES
    width,            \* World.width
    height,           \* World.height
    cells,            \* World.cells, as a function <<x, y>> -> Cell
    panicked,         \* a call on this world has panicked
    overflow_checks,  \* cargo profile: TRUE = debug (overflow panics), FALSE = release (wraps)
    rebirths,         \* number of birth_cell calls made by seeding on an alive cell
    before,           \* history: World.cells before the calls recorded in ops
    ops,              \* history: the calls made since before was taken
    focus,            \* the cell <<x, y>> the recorded calls act on
    stage,            \* "new" after World::new, "seeded" once a harness has seeded the world
    visited,          \* the positions for_each_neighbour handed to its closure
    drawn,            \* the outcomes the rng has for the gen_bool calls of seed_random
    other             \* history: the cells a harness compares World.cells with

vars == <<width, height, cells, panicked, overflow_checks, rebirths, before, ops, focus, stage,
          visited, drawn, other>>

----------------------------------------------------------------------------
(* Bounds *)

MaxSide == 3         \* Spec, SpecPrim: width <= MaxSide and height <= MaxSide
MaxCells == 6        \* Spec: grids with width * height <= MaxCells
MaxSeedCells == 1    \* Spec, SpecBirths: '#' tokens per seed_from_string pattern
MaxRebirths == 1     \* Spec, SpecPrim: births of already-alive cells by seeding
MaxLifeSide == 4     \* SpecLife: width <= MaxLifeSide and height <= MaxLifeSide
MaxLifeCells == 12   \* SpecLife: grids with width * height <= MaxLifeCells
MaxPrimCells == 6    \* SpecPrim: grids with width * height <= MaxPrimCells
MaxOps == 2          \* SpecPrim: direct calls of the primitives per run
MaxDim == 4          \* SpecNeighbour: width, height <= MaxDim
MaxBirthSide == 3    \* SpecBirths: width, height <= MaxBirthSide
MaxBlockSide == 5    \* SpecBlock: width, height in 4 .. MaxBlockSide
MaxGens == 2         \* SpecBlock: simulate calls per run
MaxGliderSide == 10  \* SpecGlider: width, height in 8 .. MaxGliderSide
MaxGliderGens == 4   \* SpecGlider: simulate calls per run
MaxRangeSide == 2    \* SpecRange: width, height in 1 .. MaxRangeSide
MaxRangeCells == 2   \* SpecRange: "#" tokens per seed text
MaxRaggedSide == 3   \* SpecRagged: width, height in 2 .. MaxRaggedSide
MaxRaggedCells == 2  \* SpecRagged: "#" tokens per seed text
MaxRandomSide == 4   \* SpecRandom: width, height <= MaxRandomSide
MaxZeroSide == 3     \* SpecZero: the side that is not 0 is <= MaxZeroSide
MaxWrapped == 2      \* iterations modelled of a loop whose end wrapped around usize
MaxCallsSide == 4    \* SpecCalls: width <= MaxCallsSide and height <= MaxCallsSide
MaxCallsCells == 12  \* SpecCalls: grids with width * height <= MaxCallsCells
MaxRefineSide == 5   \* SpecRefine: width <= MaxRefineSide and height <= MaxRefineSide
MaxRefineCells == 16 \* SpecRefine: grids with width * height <= MaxRefineCells

(* Program constants *)

U8Max == 255

I16Max == 32767

----------------------------------------------------------------------------
(* Data model *)

OFFSETS ==
    << <<-1, -1>>, <<-1, 0>>, <<-1, 1>>,
       << 0, -1>>,            << 0, 1>>,
       << 1, -1>>, << 1, 0>>, << 1, 1>> >>

Cell_new == [alive |-> FALSE, live_neighbours_count |-> 0]

Coords(w, h) == (0 .. w - 1) \X (0 .. h - 1)

World_new(w, h) == [cells |-> [p \in Coords(w, h) |-> Cell_new], panicked |-> FALSE]

self == [cells |-> cells, panicked |-> panicked]

----------------------------------------------------------------------------
(* Neighbour positions *)

(* Mutant: the edges clamp instead of wrapping *)
add_offset_clamped(max, n, offset) ==
    LET r == n + offset
    IN  IF r > max THEN max
        ELSE IF r < 0 THEN 0
        ELSE r

add_offset(max, n, offset) ==
    LET r == n + offset
    IN  IF r > max THEN 0
        ELSE IF r < 0 THEN max
        ELSE r

neighbour(x, y, i) ==
    << add_offset(width - 1, x, OFFSETS[i][1]),
       add_offset(height - 1, y, OFFSETS[i][2]) >>

(* The positions for_each_neighbour computes, one per offset, in order *)
neighbours(x, y) == [i \in 1 .. Len(OFFSETS) |-> neighbour(x, y, i)]

(* The closures of birth_cell and kill_cell: u8 += 1 and u8 -= 1 *)
(* Mutant: only a dead neighbour is counted up *)
increment_dead_only(W, p) ==
    IF W.cells[p].alive THEN W
    ELSE [W EXCEPT !.cells[p].live_neighbours_count = @ + 1]

increment(W, p) ==
    IF W.cells[p].live_neighbours_count = U8Max
    THEN IF overflow_checks
         THEN [W EXCEPT !.panicked = TRUE]
         ELSE [W EXCEPT !.cells[p].live_neighbours_count = 0]
    ELSE [W EXCEPT !.cells[p].live_neighbours_count = @ + 1]

decrement(W, p) ==
    IF W.cells[p].live_neighbours_count = 0
    THEN IF overflow_checks
         THEN [W EXCEPT !.panicked = TRUE]
         ELSE [W EXCEPT !.cells[p].live_neighbours_count = U8Max]
    ELSE [W EXCEPT !.cells[p].live_neighbours_count = @ - 1]

(* One call of the closure f; a panic ends the loop, so nothing runs after it *)
call_closure(W, f, p) ==
    IF W.panicked THEN W
    ELSE IF f = "increment" THEN increment(W, p)
    ELSE decrement(W, p)

(* The loop of for_each_neighbour, from the i-th offset on *)
RECURSIVE for_each_offset(_, _, _, _)
for_each_offset(W, ns, f, i) ==
    IF i > Len(ns) THEN W
    ELSE for_each_offset(call_closure(W, f, ns[i]), ns, f, i + 1)

for_each_neighbour(W, x, y, f) == for_each_offset(W, neighbours(x, y), f, 1)

----------------------------------------------------------------------------
(* Mutation primitives *)

InRange(x, y) == x \in 0 .. width - 1 /\ y \in 0 .. height - 1

(* Mutant: the cell counts itself among its neighbours *)
birth_cell_counting_itself(W, x, y) ==
    IF W.panicked THEN W
    ELSE IF ~InRange(x, y) THEN [W EXCEPT !.panicked = TRUE]
    ELSE increment(
            for_each_neighbour([W EXCEPT !.cells[<<x, y>>].alive = TRUE], x, y, "increment"),
            <<x, y>>)

birth_cell(W, x, y) ==
    IF W.panicked THEN W
    ELSE IF ~InRange(x, y) THEN [W EXCEPT !.panicked = TRUE]
    ELSE for_each_neighbour([W EXCEPT !.cells[<<x, y>>].alive = TRUE], x, y, "increment")

(* Mutant: the loop over the offsets misses the first one *)
kill_cell_one_short(W, x, y) ==
    IF W.panicked THEN W
    ELSE IF ~InRange(x, y) THEN [W EXCEPT !.panicked = TRUE]
    ELSE for_each_offset([W EXCEPT !.cells[<<x, y>>].alive = FALSE],
                         neighbours(x, y), "decrement", 2)

kill_cell(W, x, y) ==
    IF W.panicked THEN W
    ELSE IF ~InRange(x, y) THEN [W EXCEPT !.panicked = TRUE]
    ELSE for_each_neighbour([W EXCEPT !.cells[<<x, y>>].alive = FALSE], x, y, "decrement")

(* Mutant: no test of the alive flag *)
toggle_cell_always_births(W, x, y) == birth_cell(W, x, y)

toggle_cell(W, x, y) ==
    IF W.panicked THEN W
    ELSE IF ~InRange(x, y) THEN [W EXCEPT !.panicked = TRUE]
    ELSE IF W.cells[<<x, y>>].alive THEN kill_cell(W, x, y)
    ELSE birth_cell(W, x, y)

----------------------------------------------------------------------------
(* Seeding: str::trim, str::split and the two loops of seed_from_string *)

WhiteSpace == {" ", "\n", "\t", "\r"}

RECURSIVE trim_start(_)
trim_start(s) ==
    IF s # <<>> /\ Head(s) \in WhiteSpace THEN trim_start(Tail(s)) ELSE s

RECURSIVE trim_end(_)
trim_end(s) ==
    IF s # <<>> /\ s[Len(s)] \in WhiteSpace THEN trim_end(SubSeq(s, 1, Len(s) - 1)) ELSE s

trim(s) == trim_end(trim_start(s))

RECURSIVE split(_, _)
split(s, sep) ==
    IF \E k \in 1 .. Len(s) : s[k] = sep
    THEN LET k == CHOOSE j \in 1 .. Len(s) :
                      s[j] = sep /\ \A m \in 1 .. j - 1 : s[m] # sep
         IN  <<SubSeq(s, 1, k - 1)>> \o split(SubSeq(s, k + 1, Len(s)), sep)
    ELSE <<s>>

seed_token(W, cell, x, y) == IF cell = <<"#">> THEN birth_cell(W, x, y) ELSE W

RECURSIVE seed_row(_, _, _, _)
seed_row(W, row, y, k) ==
    IF k > Len(row) THEN W
    ELSE seed_row(seed_token(W, row[k], k - 1, y), row, y, k + 1)

RECURSIVE seed_rows(_, _, _)
seed_rows(W, rows, k) ==
    IF k > Len(rows) THEN W
    ELSE seed_rows(seed_row(W, split(trim(rows[k]), " "), k - 1, 1), rows, k + 1)

seed_from_string(W, seed) == seed_rows(W, split(trim(seed), "\n"), 1)

(* The end n - 1 of the ranges 0..(n - 1) of seed_random and simulate. In a *)
(* build without overflow checks 0 - 1 wraps around to usize::MAX: of that *)
(* range the first MaxWrapped iterations are modelled.                     *)
range_end(n) == IF n = 0 THEN MaxWrapped ELSE n - 1

(* With overflow checks 0 - 1 panics: self.height - 1 before the outer     *)
(* loop, self.width - 1 in its first iteration, if it has one.             *)
range_panics == overflow_checks /\ (height = 0 \/ (height # 1 /\ width = 0))

(* The cells the loops of seed_random and simulate range over, in loop order *)
loop_cells ==
    [k \in 1 .. range_end(width) * range_end(height) |->
        << (k - 1) % range_end(width), (k - 1) \div range_end(width) >>]

seed_random_cell(W, gen_bool, x, y) == IF gen_bool THEN birth_cell(W, x, y) ELSE W

(* seed_random, with rng[k] the outcome of the k-th gen_bool call *)
RECURSIVE seed_random_loop(_, _, _, _)
seed_random_loop(W, cs, rng, k) ==
    IF k > Len(cs) THEN W
    ELSE seed_random_loop(seed_random_cell(W, rng[k], cs[k][1], cs[k][2]), cs, rng, k + 1)

seed_random(W, rng) ==
    IF range_panics THEN [W EXCEPT !.panicked = TRUE]
    ELSE seed_random_loop(W, loop_cells, rng, 1)

----------------------------------------------------------------------------
(* Generation advance *)

(* Mutant: the decision reads the world being mutated *)
live_cell(old_world, W, x, y) == W.cells[<<x, y>>]

snapshot_cell(old_world, W, x, y) == old_world.cells[<<x, y>>]

(* Mutant: a live cell survives with two neighbours only *)
dies_unless_two(cell) == cell.alive /\ cell.live_neighbours_count # 2

dies(cell) ==
    cell.alive /\ (cell.live_neighbours_count < 2 \/ cell.live_neighbours_count > 3)

(* Mutant: no test of the alive flag *)
born_even_if_alive(cell) == cell.live_neighbours_count = 3

born(cell) == ~cell.alive /\ cell.live_neighbours_count = 3

(* Mutant: the birth branch is missing *)
simulate_cell_without_births(W, old_world, x, y) ==
    IF ~InRange(x, y) THEN [W EXCEPT !.panicked = TRUE]
    ELSE IF dies(snapshot_cell(old_world, W, x, y)) THEN kill_cell(W, x, y)
    ELSE W

(* The body of the loops of simulate for one cell *)
simulate_cell(W, old_world, x, y) ==
    IF ~InRange(x, y) THEN [W EXCEPT !.panicked = TRUE]
    ELSE LET cell == snapshot_cell(old_world, W, x, y)
         IN  IF dies(cell) THEN kill_cell(W, x, y)
             ELSE IF born(cell) THEN birth_cell(W, x, y)
             ELSE W

RECURSIVE simulate_loop(_, _, _, _)
simulate_loop(W, old_world, cs, k) ==
    IF k > Len(cs) THEN W
    ELSE LET after == simulate_cell(W, old_world, cs[k][1], cs[k][2])
         IN  IF after.panicked THEN after
             ELSE simulate_loop(after, old_world, cs, k + 1)

(* The call the body of the loops makes for one cell, if it makes one, with *)
(* the alive flag the cell has in the world at that moment                 *)
simulate_call(W, old_world, x, y) ==
    IF ~InRange(x, y) THEN <<>>
    ELSE LET cell == snapshot_cell(old_world, W, x, y)
             now == W.cells[<<x, y>>].alive
         IN  IF dies(cell) THEN <<[name |-> "kill_cell", x |-> x, y |-> y, alive |-> now]>>
             ELSE IF born(cell) THEN <<[name |-> "birth_cell", x |-> x, y |-> y, alive |-> now]>>
             ELSE <<>>

(* The calls the loops of simulate make from the k-th cell on, in order *)
RECURSIVE simulate_calls(_, _, _, _)
simulate_calls(W, old_world, cs, k) ==
    IF k > Len(cs) \/ W.panicked THEN <<>>
    ELSE simulate_call(W, old_world, cs[k][1], cs[k][2])
         \o simulate_calls(simulate_cell(W, old_world, cs[k][1], cs[k][2]), old_world, cs, k + 1)

simulate(W) ==
    IF W.panicked THEN W
    ELSE IF range_panics THEN [W EXCEPT !.panicked = TRUE]
    ELSE simulate_loop(W, W, loop_cells, 1)

----------------------------------------------------------------------------
(* The World of main.rs: cells with an alive flag only, neighbours counted *)
(* anew for each cell, no wrapping at the edges. An Option is a sequence   *)
(* of at most one element.                                                 *)

main_World(c) == [cells |-> [p \in DOMAIN c |-> [alive |-> c[p].alive]], panicked |-> FALSE]

(* n as i16 *)
as_i16(n) ==
    LET m == n % (2 * (I16Max + 1))
    IN  IF m > I16Max THEN m - 2 * (I16Max + 1) ELSE m

(* Mutant: position 0 is left out as well *)
main_add_offset_above_zero(n, offset) ==
    LET r == as_i16(n) + offset
    IN  IF r > I16Max \/ r < -(I16Max + 1) THEN <<>>
        ELSE IF r <= 0 THEN <<>>
        ELSE <<r>>

main_add_offset(n, offset) ==
    LET r == as_i16(n) + offset
    IN  IF r > I16Max \/ r < -(I16Max + 1) THEN <<>>
        ELSE IF r < 0 THEN <<>>
        ELSE <<r>>

(* The positions is_cell_alive is called on for the cell (x, y) *)
main_neighbours(x, y) ==
    {<<main_add_offset(x, OFFSETS[i][1])[1], main_add_offset(y, OFFSETS[i][2])[1]>> :
        i \in {j \in 1 .. Len(OFFSETS) : /\ main_add_offset(x, OFFSETS[j][1]) # <<>>
                                         /\ main_add_offset(y, OFFSETS[j][2]) # <<>>}}

main_live_neighbours_count(M, x, y) ==
    Cardinality({p \in main_neighbours(x, y) : M.cells[p].alive})

main_kill_cell(M, x, y) ==
    IF ~InRange(x, y) THEN [M EXCEPT !.panicked = TRUE]
    ELSE [M EXCEPT !.cells[<<x, y>>].alive = FALSE]

main_birth_cell(M, x, y) ==
    IF ~InRange(x, y) THEN [M EXCEPT !.panicked = TRUE]
    ELSE [M EXCEPT !.cells[<<x, y>>].alive = TRUE]

(* The body of the loops of main.rs's simulate for one cell; is_cell_alive *)
(* panics on a position outside the grid                                   *)
main_simulate_cell(M, old_world, x, y) ==
    IF \E p \in main_neighbours(x, y) \cup {<<x, y>>} : ~InRange(p[1], p[2])
    THEN [M EXCEPT !.panicked = TRUE]
    ELSE LET live_neighbours_count == main_live_neighbours_count(old_world, x, y)
         IN  IF old_world.cells[<<x, y>>].alive
                /\ (live_neighbours_count < 2 \/ live_neighbours_count > 3)
             THEN main_kill_cell(M, x, y)
             ELSE IF live_neighbours_count = 3 THEN main_birth_cell(M, x, y)
             ELSE M

RECURSIVE main_simulate_loop(_, _, _, _)
main_simulate_loop(M, old_world, cs, k) ==
    IF k > Len(cs) THEN M
    ELSE LET after == main_simulate_cell(M, old_world, cs[k][1], cs[k][2])
         IN  IF after.panicked THEN after
             ELSE main_simulate_loop(after, old_world, cs, k + 1)

main_simulate(M) ==
    IF range_panics THEN [M EXCEPT !.panicked = TRUE]
    ELSE main_simulate_loop(M, M, loop_cells, 1)

----------------------------------------------------------------------------
(* Seed texts: a pattern of alive cells written as the tests write it,     *)
(* tokens separated by one space, rows by a newline and an indent.         *)

RenderRow(S, w, y) ==
    [k \in 1 .. 2 * w - 1 |->
        IF k % 2 = 0 THEN " "
        ELSE IF <<(k - 1) \div 2, y>> \in S THEN "#" ELSE "-"]

RECURSIVE RenderRows(_, _, _, _)
RenderRows(S, w, h, y) ==
    IF y = h - 1 THEN RenderRow(S, w, y)
    ELSE RenderRow(S, w, y) \o <<"\n", " ", " ">> \o RenderRows(S, w, h, y + 1)

Render(S, w, h) == RenderRows(S, w, h, 0)

(* A text of Len(lens) rows, the row y with lens[y + 1] tokens *)
RECURSIVE RenderRaggedRows(_, _, _)
RenderRaggedRows(S, lens, y) ==
    IF y = Len(lens) - 1 THEN RenderRow(S, lens[y + 1], y)
    ELSE RenderRow(S, lens[y + 1], y) \o <<"\n", " ", " ">> \o RenderRaggedRows(S, lens, y + 1)

RenderRagged(S, lens) == RenderRaggedRows(S, lens, 0)

DimsUpTo(side, area) == {d \in (1 .. side) \X (1 .. side) : d[1] * d[2] <= area}

Dims == DimsUpTo(MaxSide, MaxCells)

(* The sets of at most n cells of a w x h grid *)
RECURSIVE CellSets(_, _, _)
CellSets(w, h, n) ==
    IF n = 0 THEN {{}}
    ELSE CellSets(w, h, n - 1) \cup
         {T \cup {p} : T \in CellSets(w, h, n - 1), p \in Coords(w, h)}

AliveIn(W, S) == Cardinality({p \in S : W.cells[p].alive})

----------------------------------------------------------------------------
(* Construction: World::new(width, height) for a size drawn from D *)

Construct(D) ==
    /\ \E d \in D : width = d[1] /\ height = d[2]
    /\ overflow_checks \in BOOLEAN
    /\ cells = World_new(width, height).cells
    /\ panicked = FALSE
    /\ rebirths = 0
    /\ before = cells
    /\ ops = <<>>
    /\ focus = <<0, 0>>
    /\ stage = "new"
    /\ visited = <<>>
    /\ drawn = <<>>
    /\ other = cells

Install(W) ==
    /\ cells' = W.cells
    /\ panicked' = W.panicked

Call(name, p) == [name |-> name, x |-> p[1], y |-> p[2]]

(* Append a call to the recorded history *)
Record(name, p) ==
    /\ ops' = Append(ops, Call(name, p))
    /\ UNCHANGED <<width, height, overflow_checks, rebirths, before, focus, stage, visited, drawn, other>>

----------------------------------------------------------------------------
(* Spec: the public interface of World, from World::new. The history      *)
(* holds the last call only when it is simulate: before is then the       *)
(* snapshot old_world that simulate took.                                  *)

Init == Construct(Dims)

SeedFromString ==
    /\ ~panicked
    /\ \E S \in CellSets(width, height, MaxSeedCells) :
          /\ rebirths + AliveIn(self, S) <= MaxRebirths
          /\ rebirths' = rebirths + AliveIn(self, S)
          /\ Install(seed_from_string(self, Render(S, width, height)))
    /\ before' = cells'
    /\ ops' = <<>>
    /\ UNCHANGED <<width, height, overflow_checks, focus, stage, visited, drawn, other>>

SeedRandom ==
    /\ ~panicked
    /\ \E rng \in [1 .. Len(loop_cells) -> BOOLEAN] :
          LET S == {loop_cells[k] : k \in {j \in 1 .. Len(loop_cells) : rng[j]}}
          IN  /\ rebirths + AliveIn(self, S) <= MaxRebirths
              /\ rebirths' = rebirths + AliveIn(self, S)
              /\ Install(seed_random(self, rng))
    /\ before' = cells'
    /\ ops' = <<>>
    /\ UNCHANGED <<width, height, overflow_checks, focus, stage, visited, drawn, other>>

ToggleCell ==
    /\ ~panicked
    /\ \E p \in Coords(width, height) : Install(toggle_cell(self, p[1], p[2]))
    /\ before' = cells'
    /\ ops' = <<>>
    /\ UNCHANGED <<width, height, overflow_checks, rebirths, focus, stage, visited, drawn, other>>

Simulate ==
    /\ ~panicked
    /\ Install(simulate(self))
    /\ before' = cells
    /\ ops' = <<Call("simulate", focus)>>
    /\ UNCHANGED <<width, height, overflow_checks, rebirths, focus, stage, visited, drawn, other>>

Next == SeedFromString \/ SeedRandom \/ ToggleCell \/ Simulate

Spec == Init /\ [][Next]_vars

----------------------------------------------------------------------------
(* SpecLife: the driver loop of main.rs and of the benchmark: a fresh     *)
(* world is seeded once, with any pattern that fits the grid, and then    *)
(* simulate is called again and again. As in Spec, before is the snapshot *)
(* old_world of the last simulate call.                                   *)

InitLife == Construct(DimsUpTo(MaxLifeSide, MaxLifeCells))

SeedLife ==
    /\ stage = "new"
    /\ \E S \in SUBSET Coords(width, height) :
          Install(seed_from_string(self, Render(S, width, height)))
    /\ before' = cells'
    /\ stage' = "seeded"
    /\ UNCHANGED <<width, height, overflow_checks, rebirths, ops, focus, visited, drawn, other>>

SimulateLife ==
    /\ stage = "seeded" /\ ~panicked
    /\ Install(simulate(self))
    /\ before' = cells
    /\ ops' = <<Call("simulate", focus)>>
    /\ UNCHANGED <<width, height, overflow_checks, rebirths, focus, stage, visited, drawn, other>>

NextLife == SeedLife \/ SimulateLife

SpecLife == InitLife /\ [][NextLife]_vars

----------------------------------------------------------------------------
(* SpecPrim: the private primitives called directly on one cell (focus),   *)
(* as the tests of world.rs call them, on a world the public interface     *)
(* can produce: a set A of cells seeded, a subset R of them seeded again.  *)
(* before is the seeded world, ops the direct calls made on it.            *)

InitPrim == Construct(DimsUpTo(MaxSide, MaxPrimCells))

SeedWorld ==
    /\ stage = "new"
    /\ \E A \in SUBSET Coords(width, height) :
          \E R \in {T \in CellSets(width, height, MaxRebirths) : T \subseteq A} :
             /\ Install(seed_from_string(seed_from_string(self, Render(A, width, height)),
                                         Render(R, width, height)))
             /\ rebirths' = Cardinality(R)
    /\ before' = cells'
    /\ focus' \in Coords(width, height)
    /\ stage' = "seeded"
    /\ UNCHANGED <<width, height, overflow_checks, ops, visited, drawn, other>>

CallBirthCell ==
    /\ stage = "seeded" /\ ~panicked /\ Len(ops) < MaxOps
    /\ Install(birth_cell(self, focus[1], focus[2]))
    /\ Record("birth_cell", focus)

CallKillCell ==
    /\ stage = "seeded" /\ ~panicked /\ Len(ops) < MaxOps
    /\ Install(kill_cell(self, focus[1], focus[2]))
    /\ Record("kill_cell", focus)

CallToggleCell ==
    /\ stage = "seeded" /\ ~panicked /\ Len(ops) < MaxOps
    /\ Install(toggle_cell(self, focus[1], focus[2]))
    /\ Record("toggle_cell", focus)

NextPrim == SeedWorld \/ CallBirthCell \/ CallKillCell \/ CallToggleCell

SpecPrim == InitPrim /\ [][NextPrim]_vars

----------------------------------------------------------------------------
(* SpecNeighbour: for_each_neighbour applied to every cell of every grid   *)
(* of up to MaxDim x MaxDim, with a closure that records its arguments.    *)

InitNeighbour == Construct((1 .. MaxDim) \X (1 .. MaxDim))

VisitNeighbours ==
    /\ \E p \in Coords(width, height) :
          /\ focus' = p
          /\ visited' = neighbours(p[1], p[2])
          /\ ops' = <<Call("for_each_neighbour", p)>>
    /\ UNCHANGED <<width, height, cells, panicked, overflow_checks, rebirths, before, stage,
                   drawn, other>>

NextNeighbour == VisitNeighbours

SpecNeighbour == InitNeighbour /\ [][NextNeighbour]_vars

----------------------------------------------------------------------------
(* SpecBirths: test_live_neighbours_count for every centre (focus) of      *)
(* every grid: the 8 neighbour positions of the centre are birthed one     *)
(* after another in the order of OFFSETS. The world is seeded with at most *)
(* MaxSeedCells alive cells, none of them a neighbour of the centre.       *)

InitBirths == Construct((1 .. MaxBirthSide) \X (1 .. MaxBirthSide))

SeedAround ==
    /\ stage = "new"
    /\ \E c \in Coords(width, height) :
          \E A \in CellSets(width, height, MaxSeedCells) :
             /\ \A i \in 1 .. Len(OFFSETS) : neighbours(c[1], c[2])[i] \notin A
             /\ focus' = c
             /\ Install(seed_from_string(self, Render(A, width, height)))
    /\ before' = cells'
    /\ stage' = "seeded"
    /\ UNCHANGED <<width, height, overflow_checks, rebirths, ops, visited, drawn, other>>

BirthNeighbour ==
    /\ stage = "seeded" /\ ~panicked /\ Len(ops) < Len(OFFSETS)
    /\ LET p == neighbours(focus[1], focus[2])[Len(ops) + 1]
       IN  /\ Install(birth_cell(self, p[1], p[2]))
           /\ Record("birth_cell", p)

NextBirths == SeedAround \/ BirthNeighbour

SpecBirths == InitBirths /\ [][NextBirths]_vars

----------------------------------------------------------------------------
(* SpecBlock: test_block, test_block_wrapping_x and test_block_wrapping_y  *)
(* for every position (focus) of the block's first cell: a fresh world is  *)
(* seeded with the block and simulate is called up to MaxGens times.       *)

Block(p, w, h) == {<<(p[1] + dx) % w, (p[2] + dy) % h>> : dx \in 0 .. 1, dy \in 0 .. 1}

InitBlock == Construct((4 .. MaxBlockSide) \X (4 .. MaxBlockSide))

SeedBlock ==
    /\ stage = "new"
    /\ \E p \in Coords(width, height) :
          /\ focus' = p
          /\ Install(seed_from_string(self, Render(Block(p, width, height), width, height)))
    /\ before' = cells'
    /\ stage' = "seeded"
    /\ UNCHANGED <<width, height, overflow_checks, rebirths, ops, visited, drawn, other>>

SimulateBlock ==
    /\ stage = "seeded" /\ ~panicked /\ Len(ops) < MaxGens
    /\ Install(simulate(self))
    /\ Record("simulate", focus)

NextBlock == SeedBlock \/ SimulateBlock

SpecBlock == InitBlock /\ [][NextBlock]_vars

----------------------------------------------------------------------------
(* SpecGlider: a fresh world of at least 8x8 is seeded with the glider at  *)
(* the origin, written as a 5x5 pattern, and simulate is called up to     *)
(* MaxGliderGens times.                                                    *)

Glider == {<<2, 0>>, <<0, 1>>, <<2, 1>>, <<1, 2>>, <<2, 2>>}

InitGlider == Construct((8 .. MaxGliderSide) \X (8 .. MaxGliderSide))

SeedGlider ==
    /\ stage = "new"
    /\ Install(seed_from_string(self, Render(Glider, 5, 5)))
    /\ before' = cells'
    /\ stage' = "seeded"
    /\ UNCHANGED <<width, height, overflow_checks, rebirths, ops, focus, visited, drawn, other>>

SimulateGlider ==
    /\ stage = "seeded" /\ ~panicked /\ Len(ops) < MaxGliderGens
    /\ Install(simulate(self))
    /\ Record("simulate", focus)

NextGlider == SeedGlider \/ SimulateGlider

SpecGlider == InitGlider /\ [][NextGlider]_vars

----------------------------------------------------------------------------
(* SpecRange: inputs that reach beyond the grid. A fresh world is seeded   *)
(* with a pattern that fits, and then one call is made: seed_from_string   *)
(* with a text of up to one row and one column more than the grid has, or  *)
(* birth_cell on a position of up to one row or column beyond it. focus    *)
(* is the position of the call: for a seed text, that of its last token.   *)

InitRange == Construct((1 .. MaxRangeSide) \X (1 .. MaxRangeSide))

SeedInRange ==
    /\ stage = "new"
    /\ \E S \in CellSets(width, height, MaxRangeCells) :
          Install(seed_from_string(self, Render(S, width, height)))
    /\ before' = cells'
    /\ stage' = "seeded"
    /\ UNCHANGED <<width, height, overflow_checks, rebirths, ops, focus, visited, drawn, other>>

SeedAnyText ==
    /\ stage = "seeded" /\ ~panicked
    /\ \E d \in (1 .. width + 1) \X (1 .. height + 1) :
          \E S \in CellSets(d[1], d[2], MaxRangeCells) :
             /\ Install(seed_from_string(self, Render(S, d[1], d[2])))
             /\ focus' = <<d[1] - 1, d[2] - 1>>
             /\ ops' = <<Call("seed_from_string", focus')>>
    /\ before' = cells
    /\ stage' = "called"
    /\ UNCHANGED <<width, height, overflow_checks, rebirths, visited, drawn, other>>

BirthAnywhere ==
    /\ stage = "seeded" /\ ~panicked
    /\ \E p \in (0 .. width) \X (0 .. height) :
          /\ Install(birth_cell(self, p[1], p[2]))
          /\ focus' = p
          /\ ops' = <<Call("birth_cell", p)>>
    /\ before' = cells
    /\ stage' = "called"
    /\ UNCHANGED <<width, height, overflow_checks, rebirths, visited, drawn, other>>

NextRange == SeedInRange \/ SeedAnyText \/ BirthAnywhere

SpecRange == InitRange /\ [][NextRange]_vars

----------------------------------------------------------------------------
(* SpecRagged: seed_from_string on a fresh world with a text that stays    *)
(* within the grid and whose rows do not all have the same number of       *)
(* tokens.                                                                 *)

InitRagged == Construct((2 .. MaxRaggedSide) \X (2 .. MaxRaggedSide))

SeedRagged ==
    /\ stage = "new"
    /\ \E lens \in [1 .. height -> 1 .. width] :
          /\ \E y \in 1 .. height : lens[y] # lens[1]
          /\ \E S \in CellSets(width, height, MaxRaggedCells) :
                /\ \A p \in S : p[1] < lens[p[2] + 1]
                /\ Install(seed_from_string(self, RenderRagged(S, lens)))
    /\ before' = cells
    /\ ops' = <<Call("seed_from_string", focus)>>
    /\ stage' = "called"
    /\ UNCHANGED <<width, height, overflow_checks, rebirths, focus, visited, drawn, other>>

NextRagged == SeedRagged

SpecRagged == InitRagged /\ [][NextRagged]_vars

----------------------------------------------------------------------------
(* SpecRandom: seed_random on a fresh world, for every sequence of         *)
(* outcomes of its gen_bool calls.                                         *)

InitRandom == Construct((1 .. MaxRandomSide) \X (1 .. MaxRandomSide))

CallSeedRandom ==
    /\ stage = "new"
    /\ \E rng \in [1 .. Len(loop_cells) -> BOOLEAN] :
          /\ Install(seed_random(self, rng))
          /\ drawn' = rng
    /\ before' = cells
    /\ ops' = <<Call("seed_random", focus)>>
    /\ stage' = "called"
    /\ UNCHANGED <<width, height, overflow_checks, rebirths, focus, visited, other>>

NextRandom == CallSeedRandom

SpecRandom == InitRandom /\ [][NextRandom]_vars

----------------------------------------------------------------------------
(* SpecZero: World::new with a width or a height of 0, followed by one     *)
(* call of seed_random or of simulate.                                     *)

InitZero == Construct({d \in (0 .. MaxZeroSide) \X (0 .. MaxZeroSide) : d[1] = 0 \/ d[2] = 0})

CallSimulate ==
    /\ stage = "new"
    /\ Install(simulate(self))
    /\ before' = cells
    /\ ops' = <<Call("simulate", focus)>>
    /\ stage' = "called"
    /\ UNCHANGED <<width, height, overflow_checks, rebirths, focus, visited, drawn, other>>

NextZero == CallSeedRandom \/ CallSimulate

SpecZero == InitZero /\ [][NextZero]_vars

----------------------------------------------------------------------------
(* SpecCommute: on a world seeded as in SpecPrim, birth_cell is called on  *)
(* the dead cell focus and then on another dead cell; other is the world   *)
(* the same two calls yield when made in the opposite order.               *)

BirthPair ==
    /\ stage = "seeded" /\ ~panicked /\ ~cells[focus].alive
    /\ \E b \in Coords(width, height) \ {focus} :
          /\ ~cells[b].alive
          /\ Install(birth_cell(birth_cell(self, focus[1], focus[2]), b[1], b[2]))
          /\ other' = birth_cell(birth_cell(self, b[1], b[2]), focus[1], focus[2]).cells
          /\ ops' = <<Call("birth_cell", focus), Call("birth_cell", b)>>
    /\ stage' = "called"
    /\ UNCHANGED <<width, height, overflow_checks, rebirths, before, focus, visited, drawn>>

NextCommute == SeedWorld \/ BirthPair

SpecCommute == InitPrim /\ [][NextCommute]_vars

----------------------------------------------------------------------------
(* SpecCalls: as SpecLife, with the calls of kill_cell and birth_cell that *)
(* the last simulate made recorded in ops.                                 *)

InitCalls == Construct(DimsUpTo(MaxCallsSide, MaxCallsCells))

SimulateCalls ==
    /\ stage \in {"seeded", "simulated"} /\ ~panicked
    /\ Install(simulate(self))
    /\ before' = cells
    /\ ops' = IF range_panics THEN <<>> ELSE simulate_calls(self, self, loop_cells, 1)
    /\ stage' = "simulated"
    /\ UNCHANGED <<width, height, overflow_checks, rebirths, focus, visited, drawn, other>>

NextCalls == SeedLife \/ SimulateCalls

SpecCalls == InitCalls /\ [][NextCalls]_vars

----------------------------------------------------------------------------
(* SpecRefine: a fresh world is seeded with a pattern that leaves the last  *)
(* row and the last column dead, and then each simulate is also made on a  *)
(* World of main.rs that has the same cells alive; other is that world's   *)
(* cells after its simulate.                                               *)

InitRefine == Construct(DimsUpTo(MaxRefineSide, MaxRefineCells))

SeedInterior ==
    /\ stage = "new"
    /\ \E S \in SUBSET Coords(width - 1, height - 1) :
          Install(seed_from_string(self, Render(S, width, height)))
    /\ before' = cells'
    /\ stage' = "seeded"
    /\ UNCHANGED <<width, height, overflow_checks, rebirths, ops, focus, visited, drawn, other>>

SimulateBoth ==
    /\ stage \in {"seeded", "simulated"} /\ ~panicked
    /\ Install(simulate(self))
    /\ other' = main_simulate(main_World(cells)).cells
    /\ before' = cells
    /\ ops' = <<Call("simulate", focus)>>
    /\ stage' = "simulated"
    /\ UNCHANGED <<width, height, overflow_checks, rebirths, focus, visited, drawn>>

NextRefine == SeedInterior \/ SimulateBoth

SpecRefine == InitRefine /\ [][NextRefine]_vars

----------------------------------------------------------------------------
(* Properties *)

(* The i-th toroidally wrapped neighbour position of p, by modular arithmetic *)
Wrapped(p, i) ==
    << (p[1] + OFFSETS[i][1] + width) % width,
       (p[2] + OFFSETS[i][2] + height) % height >>

(* The number of offsets at which p has an alive neighbour in c *)
AliveNeighbours(c, p) == Cardinality({i \in 1 .. Len(OFFSETS) : c[Wrapped(p, i)].alive})

(* The standard rule on one cell *)
NextAlive(cell) ==
    \/ cell.alive /\ cell.live_neighbours_count \in {2, 3}
    \/ ~cell.alive /\ cell.live_neighbours_count = 3

AllCells == Coords(width, height)

Names == [k \in 1 .. Len(ops) |-> ops[k].name]

Changed == {p \in AllCells : cells[p].alive # before[p].alive}

(* C1: in every state reachable through the public interface, every cell's
   live_neighbours_count equals the number of alive cells among its 8
   wrapped neighbour positions. *)
C1_CountsMatchAliveNeighbours ==
    \A p \in AllCells : cells[p].live_neighbours_count = AliveNeighbours(cells, p)

(* C2: after simulate, every cell of the grid, last row and last column
   included, is alive iff the standard rule on its pre-call flag and count
   says so. *)
C2_RuleAppliedToEveryCell ==
    Names = <<"simulate">> =>
        \A p \in AllCells : cells[p].alive = NextAlive(before[p])

(* C3: every cell whose alive flag simulate changed was changed to what the
   rule demands on that cell's flag and count in the pre-call snapshot. *)
C3_SimulateDecidesOnSnapshot ==
    Names = <<"simulate">> =>
        /\ ~panicked
        /\ \A p \in Changed : cells[p].alive = NextAlive(before[p])

(* C3 witness: simulate changed two cells of which one is a neighbour of the
   other, so the count of the later one was modified before its decision. *)
C3_Witness ==
    /\ Names = <<"simulate">>
    /\ \E p \in Changed : \E i \in 1 .. Len(OFFSETS) :
          Wrapped(p, i) # p /\ Wrapped(p, i) \in Changed

Corners == {<<0, 0>>, <<width - 1, 0>>, <<0, height - 1>>, <<width - 1, height - 1>>}

(* C4: for_each_neighbour visits, once per offset and in the order of
   OFFSETS, the position ((x+dx) mod width, (y+dy) mod height); on a 4x4
   grid each corner cell has the three other corners among its neighbours. *)
C4_NeighboursWrapPerOffset ==
    visited # <<>> =>
        /\ Len(visited) = 8
        /\ \A i \in 1 .. 8 : visited[i] = Wrapped(focus, i)
        /\ (width = 4 /\ height = 4 /\ focus \in Corners) =>
              Corners \ {focus} \subseteq {visited[i] : i \in 1 .. 8}

(* C4 witness: the neighbours of corner (0,0) of a 4x4 grid were visited and
   the opposite corner (3,3) is the first of them. *)
C4_Witness ==
    /\ width = 4 /\ height = 4 /\ focus = <<0, 0>>
    /\ visited # <<>> /\ visited[1] = <<3, 3>>

(* C5: birth_cell on a cell that is already alive leaves all alive flags
   and all live_neighbours_count values unchanged. *)
C5_BirthOfAliveCellChangesNothing ==
    (Names = <<"birth_cell">> /\ before[focus].alive) => cells = before

(* C6: kill_cell on a cell that is already dead leaves every alive flag and
   every live_neighbours_count unchanged, and takes no count below 0. *)
C6_KillOfDeadCellChangesNothing ==
    (Names = <<"kill_cell">> /\ ~before[focus].alive) => (cells = before /\ ~panicked)

C8_ToggleTwiceRestores ==
    Names = <<"toggle_cell", "toggle_cell">> =>
        /\ ~panicked
        /\ cells[focus].alive = before[focus].alive
        /\ \A p \in AllCells :
              cells[p].live_neighbours_count = before[p].live_neighbours_count

(* C8 witness: a cell that started alive, with an alive neighbour, was
   toggled twice. *)
C8_Witness ==
    /\ Names = <<"toggle_cell", "toggle_cell">>
    /\ before[focus].alive
    /\ before[focus].live_neighbours_count > 0

Targets == {<<ops[k].x, ops[k].y>> : k \in 1 .. Len(ops)}

(* C9: births of cells that are dead (the recorded targets are distinct and
   were dead in the seeded world) set only the targets' alive flags and add
   to each cell's count exactly 1 per offset at which a target has that cell
   as its neighbour; on a grid of at least 3x3 the centre's count is the
   number of its neighbours birthed so far: 1, 2, ..., 8. *)
C9_BirthIncrementsEachNeighbourOnce ==
    (stage = "seeded" /\ ops # <<>> /\ Cardinality(Targets) = Len(ops)) =>
        /\ ~panicked
        /\ \A q \in AllCells :
              /\ cells[q].alive = (before[q].alive \/ q \in Targets)
              /\ cells[q].live_neighbours_count =
                    before[q].live_neighbours_count +
                    Cardinality({t \in Targets \X (1 .. Len(OFFSETS)) : Wrapped(t[1], t[2]) = q})
        /\ (width >= 3 /\ height >= 3) => cells[focus].live_neighbours_count = Len(ops)

(* C9 witness: all 8 neighbours of the centre of a 3x3 grid were birthed. *)
C9_Witness ==
    /\ stage = "seeded" /\ width = 3 /\ height = 3 /\ focus = <<1, 1>>
    /\ Len(ops) = 8 /\ Cardinality(Targets) = 8
    /\ cells[focus].live_neighbours_count = 8

(* C10: a world holding only a 2x2 block, at any position of a toroidal grid
   of at least 4x4, equals the seeded world after every simulate call. *)
C10_BlockIsStillLife ==
    (stage = "seeded" /\ ops # <<>>) => (cells = before /\ ~panicked)

(* C10 witness: simulate was called on a block that straddles both wrapped
   edges, its cells in the four corners of the grid. *)
C10_Witness ==
    /\ stage = "seeded" /\ ops # <<>>
    /\ focus = <<width - 1, height - 1>>
    /\ \A p \in Corners : cells[p].alive

Alive(c) == {p \in DOMAIN c : c[p].alive}

(* C11: four simulate calls on a fresh grid of at least 8x8 seeded with the
   glider at the origin leave exactly the glider's five cells alive, each
   moved by (+1, +1). *)
C11_GliderMovesDiagonally ==
    (stage = "seeded" /\ Len(ops) = 4) =>
        /\ ~panicked
        /\ Alive(before) = Glider
        /\ Alive(cells) = {<<p[1] + 1, p[2] + 1>> : p \in Glider}

(* C11 witness: the fourth simulate call on the seeded glider has returned
   on an 8x8 grid, and the glider is no longer where it was seeded. *)
C11_Witness ==
    /\ stage = "seeded" /\ Len(ops) = 4 /\ width = 8 /\ height = 8
    /\ Alive(before) = Glider
    /\ Alive(cells) # Glider

(* C12: a birth_cell on a position outside the grid, or a seed_from_string
   whose text has a row longer than the width or more rows than the height,
   fails, and every alive flag and every count is then as it was before the
   call. *)
C12_OutOfRangeRejectedGridUnchanged ==
    (stage = "called" /\ ~InRange(focus[1], focus[2])) =>
        panicked /\ cells = before

(* C13: a seed_from_string whose rows differ in their number of tokens,
   every token within the grid, is rejected as a whole and no cell of the
   grid is changed. *)
C13_RaggedSeedRejectedGridUnchanged ==
    stage = "called" => panicked /\ cells = before

(* C14: seed_random on a fresh grid draws for every cell of the grid, the
   last row and the last column included, so that any set of cells can come
   out alive: when every draw of the call is a birth, every cell is alive. *)
C14_SeedRandomReachesEveryCell ==
    (stage = "called" /\ \A k \in 1 .. Len(drawn) : drawn[k]) =>
        Alive(cells) = AllCells

(* C15: a grid of width 0 or of height 0 is refused by World::new, so that
   no seed_random and no simulate on such a grid underflows or crashes: no
   call on a grid with a side of 0 ends in a panic. *)
C15_ZeroSidedGridNeverCrashes ==
    (width = 0 \/ height = 0) => ~panicked

(* C16: in every state reachable through the public interface, every
   live_neighbours_count lies in 0 .. 8: no sequence of calls drives a count
   past either end. *)
C16_CountsStayWithinEight ==
    \A p \in AllCells : cells[p].live_neighbours_count \in 0 .. 8

(* C17: births of two distinct dead cells commute: birth_cell on a and then
   on b leaves every alive flag and every count as birth_cell on b and then
   on a does. *)
C17_BirthsCommute ==
    stage = "called" => ~panicked /\ cells = other

(* C17 witness: on a 3x2 grid with a cell alive, two dead cells next to each
   other, each a neighbour of the other, were birthed. *)
C17_Witness ==
    /\ stage = "called" /\ width = 3 /\ height = 2
    /\ Alive(before) # {}
    /\ ops[1].y = ops[2].y /\ ops[2].x = ops[1].x + 1
    /\ Alive(cells) = Alive(before) \cup {<<ops[1].x, ops[1].y>>, <<ops[2].x, ops[2].y>>}
    /\ cells = other

(* C18: when every count is consistent before simulate, simulate calls
   birth_cell only on cells dead at that moment and kill_cell only on cells
   alive at that moment, and every count is consistent again afterwards. *)
C18_SimulateKeepsCountsConsistent ==
    (/\ stage = "simulated"
     /\ \A p \in AllCells : before[p].live_neighbours_count = AliveNeighbours(before, p)) =>
        /\ \A k \in 1 .. Len(ops) :
              /\ ops[k].name = "birth_cell" => ~ops[k].alive
              /\ ops[k].name = "kill_cell" => ops[k].alive
        /\ \A p \in AllCells : cells[p].live_neighbours_count = AliveNeighbours(cells, p)

(* C18 witness: one simulate on a 4x3 grid with consistent counts has made
   a kill_cell call and a birth_cell call. *)
C18_Witness ==
    /\ stage = "simulated" /\ width = 4 /\ height = 3
    /\ \A p \in AllCells : before[p].live_neighbours_count = AliveNeighbours(before, p)
    /\ \E k \in 1 .. Len(ops) : ops[k].name = "birth_cell" /\ cells[<<ops[k].x, ops[k].y>>].alive
    /\ \E k \in 1 .. Len(ops) : ops[k].name = "kill_cell" /\ ~cells[<<ops[k].x, ops[k].y>>].alive

LastRowAndColumn == {p \in AllCells : p[1] = width - 1 \/ p[2] = height - 1}

(* C19: from the same alive set on the same grid, with the last row and the
   last column dead and every count consistent, one simulate of world.rs's
   World and one simulate of main.rs's World leave the same cells alive. *)
C19_EnginesAgree ==
    (/\ stage = "simulated"
     /\ Alive(before) \cap LastRowAndColumn = {}
     /\ \A p \in AllCells : before[p].live_neighbours_count = AliveNeighbours(before, p)) =>
        Alive(cells) = Alive(other)

(* C19 witness: on a 4x4 grid whose last row and column are dead, one
   simulate of each engine has changed a cell of the first column, whose
   left neighbours world.rs wraps to and main.rs leaves out. *)
C19_Witness ==
    /\ stage = "simulated" /\ width = 4 /\ height = 4
    /\ Alive(before) \cap LastRowAndColumn = {}
    /\ \A p \in AllCells : before[p].live_neighbours_count = AliveNeighbours(before, p)
    /\ \E p \in Changed : p[1] = 0
    /\ \E p \in AllCells : ~before[p].alive /\ cells[p].alive
    /\ Alive(cells) = Alive(other)

====
